---- MODULE Spec2Model ----
(***************************************************************************)
(* fdup: find (and optionally delete) duplicate files by SHA-256 digest.   *)
(* Two versions of the program are modelled side by side:                  *)
(*   "concurrent"  src/main.go            (walker goroutine per root, task *)
(*                                         queue of hashing workers)       *)
(*   "sequential"  src/unnamed/part_000   (roots walked in order, files    *)
(*                                         hashed inline, --last option)   *)
(* Strings are sequences of one-character strings, a path is the sequence  *)
(* of its components, so that prefix and suffix tests are the byte-level   *)
(* tests the code performs.                                                *)
(***************************************************************************)
EXTENDS Naturals, Sequences, FiniteSets, TLC

VARIABLES
    version,                \* which program runs: "concurrent" | "sequential"
    paths,                  \* command line: root paths, as typed
    rawExtensions,          \* command line: --extension values, as typed
    hidden, remove, removeOnlyFromLast, caseSensitive,      \* flags
    mainpc,                 \* position of main()
    pathIdx,                \* index of the pruning loop in paths
    set,                    \* surviving canonical roots -> order
    order,                  \* next order number (sequential version)
    removeOnlyFromLastRoot, \* canonical form of the last path seen
    extensions,             \* normalised extension list
    walkers,                \* per walk: root and entries still to visit
    statted,                \* walks whose next entry os.Lstat has returned
    panicking,              \* walks whose walker has panicked, their deferred calls not yet run
    unwound,                \* panicked walks with no deferred call left to run
    queue,                  \* submitted tasks not yet started (FIFO)
    workers,                \* worker -> the processFile call it runs
    lock,                   \* 0 when free, else the worker holding it
    hashes,                 \* digest -> list of paths
    removed, unableToRemove,
    filesProcessed, filesUnableToProcess, bytesProcessed,
    duplicatesFound, duplicateBytes,
    fs,                     \* regular files present in storage
    output,                 \* blocks printed by the final report
    progresspc,             \* position of the progress goroutine
    shown,                  \* counters last printed by status()
    statusCount,            \* status(): the local count between two loads
    submitted,              \* history: paths handed to processFile
    removeCalls,            \* history: paths handed to os.Remove
    original,               \* history: digest -> first path recorded
    hashedPaths,            \* history: paths hashed with success
    duplicatePaths,         \* history: paths found to be duplicates
    fname, accepted         \* extension filter probe: name and verdict

vars == << statted, panicking, unwound, progresspc, shown, statusCount, version, paths, rawExtensions, hidden, remove, removeOnlyFromLast,
           caseSensitive, mainpc, pathIdx, set, order, removeOnlyFromLastRoot,
           extensions, walkers, queue, workers, lock, hashes, removed,
           unableToRemove, filesProcessed, filesUnableToProcess,
           bytesProcessed, duplicatesFound, duplicateBytes, fs, output,
           submitted, removeCalls, original, hashedPaths, duplicatePaths,
           fname, accepted >>

-----------------------------------------------------------------------------
(* Bounds of the model *)

\* longest command line of roots explored by the root-pruning specification
MaxRoots == 3
\* longest --extension list explored by the extension-filter specification
MaxExt == 2
\* number of queue workers (the code uses NumCPU*2+1)
NumWorkers == 2

-----------------------------------------------------------------------------
(* Strings *)

Str1(a) == << a >>
Str2(a, b) == << a, b >>
Str3(a, b, c) == << a, b, c >>

\* strings.HasPrefix
HasPrefix(s, prefix) ==
    /\ Len(s) >= Len(prefix)
    /\ SubSeq(s, 1, Len(prefix)) = prefix

\* strings.HasSuffix
HasSuffix(s, suffix) ==
    /\ Len(s) >= Len(suffix)
    /\ SubSeq(s, Len(s) - Len(suffix) + 1, Len(s)) = suffix

Upper == << "A", "B", "C", "D", "K", "L", "M", "T", "W", "X", "Y" >>
Lower == << "a", "b", "c", "d", "k", "l", "m", "t", "w", "x", "y" >>

\* unicode.ToLower on one character of the alphabet in use
LowerChar(c) ==
    IF \E i \in 1..Len(Upper) : Upper[i] = c
    THEN Lower[CHOOSE i \in 1..Len(Upper) : Upper[i] = c]
    ELSE c

\* strings.ToLower
ToLower(s) == [i \in 1..Len(s) |-> LowerChar(s[i])]

\* the byte value of a character of the alphabet in use
ByteOf(c) ==
    CASE c = "." -> 46 [] c = "/" -> 47
      [] c = "A" -> 65 [] c = "B" -> 66 [] c = "C" -> 67 [] c = "D" -> 68
      [] c = "K" -> 75 [] c = "L" -> 76 [] c = "M" -> 77 [] c = "T" -> 84 [] c = "W" -> 87 [] c = "X" -> 88
      [] c = "Y" -> 89
      [] c = "a" -> 97 [] c = "b" -> 98 [] c = "c" -> 99 [] c = "d" -> 100
      [] c = "k" -> 107 [] c = "l" -> 108 [] c = "m" -> 109 [] c = "t" -> 116 [] c = "w" -> 119 [] c = "x" -> 120
      [] c = "y" -> 121

\* the byte txt.NaturalLess compares when caseInsensitive is true: lower-case
\* letters are folded to upper case
FoldedByte(c) ==
    IF ByteOf(c) >= 97 /\ ByteOf(c) <= 122 THEN ByteOf(c) - 32 ELSE ByteOf(c)

\* byte-wise string order, as sort.Strings uses in the directory listing
RECURSIVE ByteLess(_, _)
ByteLess(a, b) ==
    IF a = << >> THEN b # << >>
    ELSE IF b = << >> THEN FALSE
    ELSE IF ByteOf(Head(a)) # ByteOf(Head(b))
         THEN ByteOf(Head(a)) < ByteOf(Head(b))
         ELSE ByteLess(Tail(a), Tail(b))

\* txt.NaturalLess(a, b, true) on strings without digits: the first differing
\* folded byte decides, a proper prefix sorts first
RECURSIVE NaturalLess(_, _)
NaturalLess(a, b) ==
    IF a = << >> THEN b # << >>
    ELSE IF b = << >> THEN FALSE
    ELSE IF FoldedByte(Head(a)) # FoldedByte(Head(b))
         THEN FoldedByte(Head(a)) < FoldedByte(Head(b))
         ELSE NaturalLess(Tail(a), Tail(b))

-----------------------------------------------------------------------------
(* Paths *)

\* the text of an absolute path: "/" before every component
RECURSIVE PathString(_)
PathString(p) ==
    IF p = << >> THEN << >>
    ELSE << "/" >> \o Head(p) \o PathString(Tail(p))

\* components joined by "/" (no leading separator)
RECURSIVE Join(_)
Join(cs) ==
    IF cs = << >> THEN << >>
    ELSE IF Len(cs) = 1 THEN cs[1]
    ELSE cs[1] \o << "/" >> \o Join(Tail(cs))

RECURSIVE CommonLen(_, _)
CommonLen(a, b) ==
    IF a = << >> \/ b = << >> \/ Head(a) # Head(b) THEN 0
    ELSE 1 + CommonLen(Tail(a), Tail(b))

\* filepath.Rel(base, target) for clean absolute paths: ".." for every
\* component of base below the common prefix, then the rest of target;
\* "." when the two are equal
rel(base, target) ==
    LET k == CommonLen(base, target)
        ups == [i \in 1..(Len(base) - k) |-> Str2(".", ".")]
        rest == SubSeq(target, k + 1, Len(target))
    IN  IF base = target THEN Str1(".")
        ELSE Join(ups \o rest)

\* a is a proper ancestor of d, by path components
IsAncestor(a, d) ==
    /\ Len(a) < Len(d)
    /\ SubSeq(d, 1, Len(a)) = a

\* p is a or lies under a
Within(a, p) == p = a \/ IsAncestor(a, p)

\* filepath.Base of a non-root path
Base(p) == p[Len(p)]

-----------------------------------------------------------------------------
(* The tree in storage *)

pA == << Str1("a") >>
pB == << Str1("a"), Str3(".", ".", "b") >>
pD == << Str1("a"), Str3(".", ".", "b"), Str1("d") >>
pY == << Str1("a"), Str3(".", ".", "b"), Str1("d"), Str1("y") >>
pX == << Str1("a"), Str1("x") >>
pC == << Str1("c") >>
pK == << Str1("c"), Str2(".", "k") >>
pW == << Str1("c"), Str1("w") >>
pL == << Str1("l") >>       \* a symbolic link to /c
pM == << Str1("m") >>       \* does not exist

Dirs == { pA, pB, pD, pC }
Files == { pY, pX, pK, pW }

\* the bytes of each file
Content(p) ==
    IF p = pK THEN << 2, 2 >> ELSE << 1 >>

-----------------------------------------------------------------------------
(* Root normalisation: main(), "Determine the actual root paths and prune out
   paths that are a subset of another" *)

\* os.Getwd
Getwd == pC

\* realpath.Realpath fails on a path that does not exist
RealpathOk(p) == p # pM

\* realpath.Realpath: symbolic links resolved
Realpath(p) == IF p = pL THEN pC ELSE p

\* the orders in which a range over a map with keys S may produce them
Orderings(S) ==
    { f \in [1..Cardinality(S) -> S] :
        \A i, j \in 1..Cardinality(S) : i # j => f[i] # f[j] }

\* delete(set, one)
MapDelete(m, k) == [x \in DOMAIN m \ {k} |-> m[x]]

\* strings.HasPrefix(rel(base, target), "..")
RelPrefixed(base, target) == HasPrefix(rel(base, target), Str2(".", "."))

\* the inner loop "for one := range set" for the candidate actual, the map
\* producing its keys in the order ord
RECURSIVE PruneLoop(_, _, _)
PruneLoop(s, actual, ord) ==
    IF ord = << >> THEN [set |-> s, add |-> TRUE]
    ELSE LET one == Head(ord)
             prefixed == RelPrefixed(one, actual)
         IN  IF prefixed # RelPrefixed(actual, one)
             THEN IF prefixed
                  THEN PruneLoop(MapDelete(s, one), actual, Tail(ord))
                  ELSE [set |-> s, add |-> FALSE]
             ELSE PruneLoop(s, actual, Tail(ord))

\* the value stored for a new root: its order in the sequential version,
\* the constant true (written 0) in the concurrent one
RootValue == IF version = "sequential" THEN order ELSE 0

\* lines 59-67: no path given, use the current directory; when os.Getwd
\* fails the message is printed and the program exits with status 1
UseWorkingDir ==
    /\ mainpc = "args"
    /\ IF Len(paths) = 0
       THEN \E ok \in BOOLEAN :
              IF ok
              THEN /\ paths' = << Getwd >>
                   /\ mainpc' = "prune"
              ELSE /\ paths' = paths
                   /\ mainpc' = "exit"
       ELSE /\ paths' = paths
            /\ mainpc' = "prune"
    /\ UNCHANGED << statted, panicking, unwound, statusCount, progresspc, shown, version, rawExtensions, hidden, remove, removeOnlyFromLast,
                    caseSensitive, pathIdx, set, order, removeOnlyFromLastRoot,
                    extensions, walkers, queue, workers, lock, hashes, removed,
                    unableToRemove, filesProcessed, filesUnableToProcess,
                    bytesProcessed, duplicatesFound, duplicateBytes, fs, output,
                    submitted, removeCalls, original, hashedPaths, duplicatePaths,
           fname, accepted >>

\* the last root recorded only for a path not seen before
LastRootIfNew(actual) ==
    IF version = "sequential" /\ actual \notin DOMAIN set
    THEN actual ELSE removeOnlyFromLastRoot

\* "removeOnlyFromLastRoot = actual" at the end of every iteration of the
\* pruning loop (sequential version; the concurrent one has no such variable)
LastRoot(actual) ==
    IF version = "sequential" THEN actual ELSE removeOnlyFromLastRoot

\* one iteration of "for _, path := range paths"
PrunePath ==
    /\ mainpc = "prune"
    /\ pathIdx <= Len(paths)
    /\ IF ~RealpathOk(paths[pathIdx])
       THEN /\ mainpc' = "exit"
            /\ UNCHANGED << pathIdx, set, order, removeOnlyFromLastRoot >>
       ELSE LET actual == Realpath(paths[pathIdx]) IN
            /\ IF actual \in DOMAIN set
               THEN UNCHANGED << set, order >>
               ELSE \E ord \in Orderings(DOMAIN set) :
                      LET r == PruneLoop(set, actual, ord) IN
                      IF r.add
                      THEN /\ set' = [x \in DOMAIN r.set \cup {actual} |->
                                        IF x = actual THEN RootValue
                                        ELSE r.set[x]]
                           /\ order' = IF version = "sequential"
                                       THEN order + 1 ELSE order
                      ELSE /\ set' = r.set
                           /\ order' = order
            /\ removeOnlyFromLastRoot' = LastRoot(actual)
            /\ pathIdx' = pathIdx + 1
            /\ mainpc' = mainpc
    /\ UNCHANGED << statted, panicking, unwound, statusCount, progresspc, shown, version, paths, rawExtensions, hidden, remove,
                    removeOnlyFromLast, caseSensitive,
                    extensions, walkers, queue, workers, lock, hashes, removed,
                    unableToRemove, filesProcessed, filesUnableToProcess,
                    bytesProcessed, duplicatesFound, duplicateBytes, fs, output,
                    submitted, removeCalls, original, hashedPaths, duplicatePaths,
           fname, accepted >>

-----------------------------------------------------------------------------
(* Progress monitoring *)

\* status() called while no other goroutine changes a counter (from main()
\* before the walks start and after all work is over): the four counters it
\* loads and prints
status ==
    [files |-> filesProcessed, bytes |-> bytesProcessed,
     dups |-> duplicatesFound, dupBytes |-> duplicateBytes]

\* the process has neither returned from main() nor been torn down
Running == mainpc \notin { "done", "exit", "panic" }

\* main(), "Setup progress monitoring": status() and go progress(done)
StartProgress ==
    /\ mainpc = "prune"
    /\ pathIdx > Len(paths)
    /\ shown' = status
    /\ progresspc' = "select"
    /\ mainpc' = "format"
    /\ UNCHANGED << statted, panicking, unwound, statusCount, version, paths, rawExtensions, hidden, remove,
                    removeOnlyFromLast, caseSensitive, pathIdx, set, order,
                    removeOnlyFromLastRoot, extensions, walkers, queue,
                    workers, lock, hashes, removed, unableToRemove,
                    filesProcessed, filesUnableToProcess, bytesProcessed,
                    duplicatesFound, duplicateBytes, fs, output, submitted,
                    removeCalls, original, hashedPaths, duplicatePaths, fname,
                    accepted >>

\* progress(): the quarter-second timer of the select fires and status()
\* starts: count := atomic.LoadInt32(&filesProcessed)
ProgressTick ==
    /\ Running
    /\ progresspc = "select"
    /\ statusCount' = filesProcessed
    /\ progresspc' = "loadBytes"
    /\ UNCHANGED << statted, panicking, unwound, shown, version, paths, rawExtensions, hidden, remove,
                    removeOnlyFromLast, caseSensitive, mainpc, pathIdx, set,
                    order, removeOnlyFromLastRoot, extensions, walkers, queue,
                    workers, lock, hashes, removed, unableToRemove,
                    filesProcessed, filesUnableToProcess, bytesProcessed,
                    duplicatesFound, duplicateBytes, fs, output, submitted,
                    removeCalls, original, hashedPaths, duplicatePaths, fname,
                    accepted >>

\* status(): bytes := atomic.LoadInt64(&bytesProcessed), and the first line
\* is printed from the two values loaded
StatusLoadBytes ==
    /\ Running
    /\ progresspc = "loadBytes"
    /\ shown' = [shown EXCEPT !.files = statusCount,
                              !.bytes = bytesProcessed]
    /\ statusCount' = 0
    /\ progresspc' = "loadDups"
    /\ UNCHANGED << statted, panicking, unwound, version, paths, rawExtensions, hidden, remove,
                    removeOnlyFromLast, caseSensitive, mainpc, pathIdx, set,
                    order, removeOnlyFromLastRoot, extensions, walkers, queue,
                    workers, lock, hashes, removed, unableToRemove,
                    filesProcessed, filesUnableToProcess, bytesProcessed,
                    duplicatesFound, duplicateBytes, fs, output, submitted,
                    removeCalls, original, hashedPaths, duplicatePaths, fname,
                    accepted >>

\* status(): count = atomic.LoadInt32(&duplicatesFound)
StatusLoadDups ==
    /\ Running
    /\ progresspc = "loadDups"
    /\ statusCount' = duplicatesFound
    /\ progresspc' = "loadDupBytes"
    /\ UNCHANGED << statted, panicking, unwound, shown, version, paths, rawExtensions, hidden, remove,
                    removeOnlyFromLast, caseSensitive, mainpc, pathIdx, set,
                    order, removeOnlyFromLastRoot, extensions, walkers, queue,
                    workers, lock, hashes, removed, unableToRemove,
                    filesProcessed, filesUnableToProcess, bytesProcessed,
                    duplicatesFound, duplicateBytes, fs, output, submitted,
                    removeCalls, original, hashedPaths, duplicatePaths, fname,
                    accepted >>

\* status(): bytes = atomic.LoadInt64(&duplicateBytes), the second line is
\* printed and progress() is back at its select
StatusLoadDupBytes ==
    /\ Running
    /\ progresspc = "loadDupBytes"
    /\ shown' = [shown EXCEPT !.dups = statusCount,
                              !.dupBytes = duplicateBytes]
    /\ statusCount' = 0
    /\ progresspc' = "select"
    /\ UNCHANGED << statted, panicking, unwound, version, paths, rawExtensions, hidden, remove,
                    removeOnlyFromLast, caseSensitive, mainpc, pathIdx, set,
                    order, removeOnlyFromLastRoot, extensions, walkers, queue,
                    workers, lock, hashes, removed, unableToRemove,
                    filesProcessed, filesUnableToProcess, bytesProcessed,
                    duplicatesFound, duplicateBytes, fs, output, submitted,
                    removeCalls, original, hashedPaths, duplicatePaths, fname,
                    accepted >>

-----------------------------------------------------------------------------
(* Extension filter *)

\* main(), "Ensure extensions are properly formatted": the loop body applied
\* to every configured extension in turn
RECURSIVE FormatExtensionList(_, _)
FormatExtensionList(raw, cs) ==
    IF raw = << >> THEN << >>
    ELSE LET lowered == IF ~cs THEN ToLower(Head(raw)) ELSE Head(raw)
             dotted == IF ~HasPrefix(lowered, Str1("."))
                       THEN Str1(".") \o lowered ELSE lowered
         IN  (IF dotted # Str1(".") THEN << dotted >> ELSE << >>)
                 \o FormatExtensionList(Tail(raw), cs)

\* isFileNameAcceptable without the lower-casing of the name
AcceptNoFold(name) ==
    IF Len(extensions) = 0 THEN TRUE
    ELSE \E i \in 1..Len(extensions) : HasSuffix(name, extensions[i])

isFileNameAcceptable(name) ==
    IF Len(extensions) = 0 THEN TRUE
    ELSE LET n == IF ~caseSensitive THEN ToLower(name) ELSE name
         IN  \E i \in 1..Len(extensions) : HasSuffix(n, extensions[i])

\* main() after the pruning loop: extensions = ext
FormatExtensions ==
    /\ mainpc = "format"
    /\ extensions' = FormatExtensionList(extensions, caseSensitive)
    /\ mainpc' = "walk"
    /\ UNCHANGED << statted, panicking, unwound, statusCount, progresspc, shown, version, paths, rawExtensions, hidden, remove,
                    removeOnlyFromLast, caseSensitive, pathIdx, set, order,
                    removeOnlyFromLastRoot, walkers, queue, workers, lock,
                    hashes, removed, unableToRemove, filesProcessed,
                    filesUnableToProcess, bytesProcessed, duplicatesFound,
                    duplicateBytes, fs, output, submitted, removeCalls,
                    original, hashedPaths, duplicatePaths, fname, accepted >>

\* the walker's call isFileNameAcceptable(name) on a file name
ProbeName ==
    /\ mainpc = "walk"
    /\ accepted' = isFileNameAcceptable(fname)
    /\ mainpc' = "probed"
    /\ UNCHANGED << statted, panicking, unwound, statusCount, progresspc, shown, version, paths, rawExtensions, hidden, remove,
                    removeOnlyFromLast, caseSensitive, pathIdx, set, order,
                    removeOnlyFromLastRoot, extensions, walkers, queue,
                    workers, lock, hashes, removed, unableToRemove,
                    filesProcessed, filesUnableToProcess, bytesProcessed,
                    duplicatesFound, duplicateBytes, fs, output, submitted,
                    removeCalls, original, hashedPaths, duplicatePaths, fname >>

-----------------------------------------------------------------------------
(* Tree walk: filepath.Walk calling walker *)

\* a worker (the calling thread in the sequential version) running no task
Idle == [pc |-> "idle"]

\* the least element of a non-empty set of paths by the byte order of names
MinByName(S) ==
    CHOOSE p \in S : \A q \in S : q = p \/ ByteLess(Base(p), Base(q))

RECURSIVE SortByName(_)
SortByName(S) ==
    IF S = {} THEN << >>
    ELSE << MinByName(S) >> \o SortByName(S \ { MinByName(S) })

\* filepath.Walk's readDirNames joined to the directory: the entries present
\* in the directory, sorted by name
ReadDir(dir) ==
    SortByName({ p \in Dirs \cup fs :
                   Len(p) = Len(dir) + 1 /\ IsAncestor(dir, p) })

\* os.Lstat succeeds on the entry
LstatOk(p) == p \in Dirs \/ p \in fs

\* the walk that may take its next step: every walk goroutine that has not
\* panicked in the concurrent version, for as long as the process lives; in
\* the sequential version the unfinished root of least order, once the inline
\* processFile call has returned and unless main() has panicked
MayStep(r) ==
    /\ r \in DOMAIN walkers
    /\ walkers[r] # << >>
    /\ r \notin panicking \cup unwound
    /\ IF version = "concurrent"
       THEN mainpc \in { "wait", "shutdown" }
       ELSE /\ mainpc = "walking"
            /\ unwound = {}
            /\ workers[1].pc = "idle"
            /\ \A q \in DOMAIN walkers :
                 walkers[q] # << >> => set[r] <= set[q]

\* walker() skipping nothing
NoHiddenSkip(name) == FALSE

\* walker() says the entry is hidden and to be skipped
HiddenSkip(name) == ~hidden /\ HasPrefix(name, Str1("."))

\* main(), "Process the paths", concurrent version: one goroutine per root
SpawnWalkers ==
    /\ mainpc = "walk"
    /\ version = "concurrent"
    /\ walkers' = [r \in DOMAIN set |-> << r >>]
    /\ mainpc' = "wait"
    /\ UNCHANGED << statted, panicking, unwound, statusCount, progresspc, shown, version, paths, rawExtensions, hidden, remove,
                    removeOnlyFromLast, caseSensitive, pathIdx, set, order,
                    removeOnlyFromLastRoot, extensions, queue, workers, lock,
                    hashes, removed, unableToRemove, filesProcessed,
                    filesUnableToProcess, bytesProcessed, duplicatesFound,
                    duplicateBytes, fs, output, submitted, removeCalls,
                    original, hashedPaths, duplicatePaths, fname, accepted >>

\* main(), "Process the paths", sequential version: the roots listed and
\* sorted by order, to be walked one after another
ListRoots ==
    /\ mainpc = "walk"
    /\ version = "sequential"
    /\ walkers' = [r \in DOMAIN set |-> << r >>]
    /\ mainpc' = "walking"
    /\ UNCHANGED << statted, panicking, unwound, statusCount, progresspc, shown, version, paths, rawExtensions, hidden, remove,
                    removeOnlyFromLast, caseSensitive, pathIdx, set, order,
                    removeOnlyFromLastRoot, extensions, queue, workers, lock,
                    hashes, removed, unableToRemove, filesProcessed,
                    filesUnableToProcess, bytesProcessed, duplicatesFound,
                    duplicateBytes, fs, output, submitted, removeCalls,
                    original, hashedPaths, duplicatePaths, fname, accepted >>

\* filepath.Walk reaches the next entry e of the walk of root r: os.Lstat,
\* which fails when the entry is gone and may fail otherwise (a directory
\* listed but not searchable). On failure walker(e, nil, err) is called and
\* info.Name() on the nil FileInfo panics: the walk never returns. In the
\* concurrent version the goroutine's deferred wg.Done() is still to run; in
\* the sequential version the panic is in main(), which has no deferred call.
\* On success the walker call follows in a later step
WalkLstat(r) ==
    /\ MayStep(r)
    /\ r \notin statted
    /\ \E lstat \in BOOLEAN :
         /\ lstat => LstatOk(Head(walkers[r]))
         /\ IF lstat
            THEN /\ statted' = statted \cup { r }
                 /\ UNCHANGED << panicking, unwound >>
            ELSE IF version = "concurrent"
            THEN /\ panicking' = panicking \cup { r }
                 /\ UNCHANGED << statted, unwound >>
            ELSE /\ unwound' = unwound \cup { r }
                 /\ UNCHANGED << statted, panicking >>
    /\ UNCHANGED << statusCount, progresspc, shown, version, paths,
                    rawExtensions, hidden, remove, removeOnlyFromLast,
                    caseSensitive, mainpc, pathIdx, set, order,
                    removeOnlyFromLastRoot, extensions, walkers, queue,
                    workers, lock, hashes, removed, unableToRemove,
                    filesProcessed, filesUnableToProcess, bytesProcessed,
                    duplicatesFound, duplicateBytes, fs, output, submitted,
                    removeCalls, original, hashedPaths, duplicatePaths, fname,
                    accepted >>

\* filepath.Walk calls walker(e, info, err) for the entry e it has the info
\* of: a hidden entry is skipped, the entries of a directory are queued (none
\* when reading the directory failed, listed = FALSE: walker is then called
\* with the directory's own info and returns nil), an acceptable file is
\* submitted
WalkStep(r) ==
    /\ MayStep(r)
    /\ r \in statted
    /\ statted' = statted \ { r }
    /\ \E listed \in BOOLEAN :
       LET e == Head(walkers[r])
           rest == Tail(walkers[r])
           name == Base(e)
       IN  /\ ~listed => e \in Dirs /\ ~HiddenSkip(name)
           /\ IF HiddenSkip(name)
              THEN \* filepath.SkipDir for a directory, nil for a file
                   /\ walkers' = [walkers EXCEPT ![r] = rest]
                   /\ UNCHANGED << queue, workers, submitted >>
              ELSE IF e \in Dirs
              THEN \* walker returns nil; the entries follow when they were read
                   /\ walkers' = [walkers EXCEPT ![r] =
                                    (IF listed THEN ReadDir(e) ELSE << >>)
                                        \o rest]
                   /\ UNCHANGED << queue, workers, submitted >>
              ELSE /\ walkers' = [walkers EXCEPT ![r] = rest]
                   /\ IF isFileNameAcceptable(name)
                      THEN /\ submitted' = submitted \cup { e }
                           /\ IF version = "concurrent"
                              THEN /\ queue' = Append(queue, e)
                                   /\ workers' = workers
                              ELSE /\ queue' = queue
                                   /\ workers' = [workers EXCEPT ![1] =
                                                    [pc |-> "open", path |-> e]]
                      ELSE UNCHANGED << queue, workers, submitted >>
    /\ UNCHANGED << panicking, unwound, statusCount, progresspc, shown,
                    version, paths,
                    rawExtensions, hidden, remove, removeOnlyFromLast,
                    caseSensitive, mainpc, pathIdx, set, order,
                    removeOnlyFromLastRoot, extensions, lock, hashes, removed,
                    unableToRemove, filesProcessed, filesUnableToProcess,
                    bytesProcessed, duplicatesFound, duplicateBytes, fs,
                    output, removeCalls, original, hashedPaths,
                    duplicatePaths, fname, accepted >>

\* the panic of the walker unwinds the goroutine of the walk of root r
\* (concurrent version): the deferred wg.Done() runs, as it does when the
\* walk returns, while every other goroutine goes on
WalkUnwind(r) ==
    /\ Running
    /\ r \in panicking
    /\ panicking' = panicking \ { r }
    /\ unwound' = unwound \cup { r }
    /\ UNCHANGED << statted, statusCount, progresspc, shown, version, paths,
                    rawExtensions, hidden, remove, removeOnlyFromLast,
                    caseSensitive, pathIdx, set, order,
                    removeOnlyFromLastRoot, extensions, walkers, queue,
                    workers, lock, hashes, removed, unableToRemove,
                    filesProcessed, filesUnableToProcess, bytesProcessed,
                    duplicatesFound, duplicateBytes, fs, output, submitted,
                    removeCalls, original, hashedPaths, duplicatePaths, fname,
                    accepted, mainpc >>

\* the panic was not recovered: once the deferred calls of the panicking
\* goroutine have run the Go runtime ends the process with exit status 2,
\* wherever the other goroutines are. This holds after main() has returned
\* too: the runtime then waits for a panic in progress before it would exit
\* with status 0, so the report may be followed by the panic
PanicExit ==
    /\ Running \/ mainpc = "done"
    /\ unwound # {}
    /\ mainpc' = "panic"
    /\ UNCHANGED << panicking, unwound, statted, statusCount, progresspc,
                    shown, version, paths, rawExtensions, hidden, remove,
                    removeOnlyFromLast, caseSensitive, pathIdx, set, order,
                    removeOnlyFromLastRoot, extensions, walkers, queue,
                    workers, lock, hashes, removed, unableToRemove,
                    filesProcessed, filesUnableToProcess, bytesProcessed,
                    duplicatesFound, duplicateBytes, fs, output, submitted,
                    removeCalls, original, hashedPaths, duplicatePaths, fname,
                    accepted >>

-----------------------------------------------------------------------------
(* processFile *)

\* crypto/sha256 of the content; collisions do not occur
Sha256(content) == [sum |-> content]

\* the process is alive and hashing may go on
Alive == mainpc \in { "wait", "shutdown", "walking" }

\* a queue worker takes the next submitted task (concurrent version)
StartTask(w) ==
    /\ Alive
    /\ version = "concurrent"
    /\ workers[w].pc = "idle"
    /\ queue # << >>
    /\ workers' = [workers EXCEPT ![w] = [pc |-> "open", path |-> Head(queue)]]
    /\ queue' = Tail(queue)
    /\ UNCHANGED << statted, panicking, unwound, statusCount, progresspc, shown, version, paths, rawExtensions, hidden, remove,
                    removeOnlyFromLast, caseSensitive, mainpc, pathIdx, set,
                    order, removeOnlyFromLastRoot, extensions, walkers, lock,
                    hashes, removed, unableToRemove, filesProcessed,
                    filesUnableToProcess, bytesProcessed, duplicatesFound,
                    duplicateBytes, fs, output, submitted, removeCalls,
                    original, hashedPaths, duplicatePaths, fname, accepted >>

\* os.Open: fails when the file is gone and may fail otherwise; the file is
\* then counted as unprocessable and processFile returns
OpenFile(w) ==
    /\ Alive
    /\ workers[w].pc = "open"
    /\ \E ok \in BOOLEAN :
         /\ ok => workers[w].path \in fs
         /\ IF ok
            THEN /\ workers' = [workers EXCEPT ![w].pc = "copy"]
                 /\ UNCHANGED filesUnableToProcess
            ELSE /\ filesUnableToProcess' = filesUnableToProcess + 1
                 /\ workers' = [workers EXCEPT ![w] = Idle]
    /\ UNCHANGED << statted, panicking, unwound, statusCount, progresspc, shown, version, paths,
                    rawExtensions, hidden, remove, removeOnlyFromLast,
                    caseSensitive, mainpc, pathIdx, set, order,
                    removeOnlyFromLastRoot, extensions, walkers, queue, lock,
                    hashes, removed, unableToRemove, filesProcessed,
                    bytesProcessed, duplicatesFound, duplicateBytes, fs,
                    output, submitted, removeCalls, original, hashedPaths,
                    duplicatePaths, fname, accepted >>

\* processFile counting a file it could not read among the files processed
HashAndCountFailed(w) ==
    /\ Alive
    /\ workers[w].pc = "copy"
    /\ \E ok \in BOOLEAN :
         IF ok
            THEN LET content == Content(workers[w].path) IN
                 /\ filesProcessed' = filesProcessed + 1
                 /\ workers' = [workers EXCEPT ![w] =
                                  [pc |-> "bytes", path |-> workers[w].path,
                                   sum |-> Sha256(content), n |-> Len(content)]]
                 /\ hashedPaths' = hashedPaths \cup { workers[w].path }
                 /\ UNCHANGED filesUnableToProcess
            ELSE /\ filesUnableToProcess' = filesUnableToProcess + 1
                 /\ filesProcessed' = filesProcessed + 1
                 /\ workers' = [workers EXCEPT ![w] = Idle]
                 /\ UNCHANGED hashedPaths
    /\ UNCHANGED << statted, panicking, unwound, statusCount, progresspc, shown, version, paths,
                    rawExtensions, hidden, remove, removeOnlyFromLast,
                    caseSensitive, mainpc, pathIdx, set, order,
                    removeOnlyFromLastRoot, extensions, walkers, queue, lock,
                    hashes, removed, unableToRemove, bytesProcessed,
                    duplicatesFound, duplicateBytes, fs, output, submitted,
                    removeCalls, original, duplicatePaths, fname, accepted >>

\* io.Copy of the open file into the hash, which goes on reading the file
\* when its name has been removed meanwhile: either a read fails and the
\* file is counted as unprocessable, or atomic.AddInt32(&filesProcessed, 1)
\* counts it
HashAndCount(w) ==
    /\ Alive
    /\ workers[w].pc = "copy"
    /\ \E ok \in BOOLEAN :
         IF ok
            THEN LET content == Content(workers[w].path) IN
                 /\ filesProcessed' = filesProcessed + 1
                 /\ workers' = [workers EXCEPT ![w] =
                                  [pc |-> "bytes", path |-> workers[w].path,
                                   sum |-> Sha256(content), n |-> Len(content)]]
                 /\ hashedPaths' = hashedPaths \cup { workers[w].path }
                 /\ UNCHANGED filesUnableToProcess
            ELSE /\ filesUnableToProcess' = filesUnableToProcess + 1
                 /\ workers' = [workers EXCEPT ![w] = Idle]
                 /\ UNCHANGED << filesProcessed, hashedPaths >>
    /\ UNCHANGED << statted, panicking, unwound, statusCount, progresspc, shown, version, paths,
                    rawExtensions, hidden, remove, removeOnlyFromLast,
                    caseSensitive, mainpc, pathIdx, set, order,
                    removeOnlyFromLastRoot, extensions, walkers, queue, lock,
                    hashes, removed, unableToRemove, bytesProcessed,
                    duplicatesFound, duplicateBytes, fs, output, submitted,
                    removeCalls, original, duplicatePaths, fname, accepted >>

\* atomic.AddInt64(&bytesProcessed, n), a step of its own after the file
\* was counted
CountBytes(w) ==
    /\ Alive
    /\ workers[w].pc = "bytes"
    /\ bytesProcessed' = bytesProcessed + workers[w].n
    /\ workers' = [workers EXCEPT ![w].pc = "lock"]
    /\ UNCHANGED << statted, panicking, unwound, statusCount, progresspc, shown, version, paths,
                    rawExtensions, hidden, remove, removeOnlyFromLast,
                    caseSensitive, mainpc, pathIdx, set, order,
                    removeOnlyFromLastRoot, extensions, walkers, queue, lock,
                    hashes, removed, unableToRemove, filesProcessed,
                    filesUnableToProcess, duplicatesFound, duplicateBytes, fs,
                    output, submitted, removeCalls, original, hashedPaths,
                    duplicatePaths, fname, accepted >>

\* a mutex that lets every caller in
LockNeverHeld == TRUE

\* sync.Mutex: Lock() returns only when no caller holds the mutex
LockFree == lock = 0

\* lock.Lock(), before the index update and before either list append
Lock(w) ==
    /\ Alive
    /\ workers[w].pc \in { "lock", "lockresult" }
    /\ LockFree
    /\ lock' = w
    /\ workers' = [workers EXCEPT ![w].pc =
                     IF workers[w].pc = "lock" THEN "index" ELSE "result"]
    /\ UNCHANGED << statted, panicking, unwound, statusCount, progresspc, shown, version, paths, rawExtensions, hidden, remove,
                    removeOnlyFromLast, caseSensitive, mainpc, pathIdx, set,
                    order, removeOnlyFromLastRoot, extensions, walkers, queue,
                    hashes, removed, unableToRemove, filesProcessed,
                    filesUnableToProcess, bytesProcessed, duplicatesFound,
                    duplicateBytes, fs, output, submitted, removeCalls,
                    original, hashedPaths, duplicatePaths, fname, accepted >>

\* the map with key k set to value v
MapPut(m, k, v) == [x \in DOMAIN m \cup { k } |-> IF x = k THEN v ELSE m[x]]

\* the index update with the append forgotten: the group is started anew
IndexPutOverwrite(h, sum, path) == MapPut(h, sum, << path >>)

\* the index update with the new path put in front of its group
IndexPutPrepend(h, sum, path) ==
    IF sum \in DOMAIN h
    THEN IF remove THEN h ELSE MapPut(h, sum, << path >> \o h[sum])
    ELSE MapPut(h, sum, << path >>)

\* the index after a path with digest sum is recorded: appended to the
\* digest's group in discovery mode, left alone in deletion mode, a new group
\* when the digest is new
IndexPut(h, sum, path) ==
    IF sum \in DOMAIN h
    THEN IF remove THEN h ELSE MapPut(h, sum, Append(h[sum], path))
    ELSE MapPut(h, sum, << path >>)

\* the duplicate counted only where its path is appended to the group
DuplicatesIfKept(exists) ==
    IF exists /\ ~remove THEN duplicatesFound + 1 ELSE duplicatesFound

\* atomic.AddInt32(&duplicatesFound, 1) when the digest is in the index
DuplicatesAfter(exists) ==
    IF exists THEN duplicatesFound + 1 ELSE duplicatesFound

\* the unlock put off until the removal is over
HeldThroughRemoval(w, needRemove) == IF needRemove THEN w ELSE 0

\* lock.Unlock() right after the index update, whether or not a removal is
\* to follow: the lock's holder afterwards is nobody
LockAfterUpdate(w, needRemove) == 0

\* "Add the info into our state", under the lock: the digest is looked up;
\* when it is new the group is created and the lock released, when it is
\* known atomic.AddInt32(&duplicatesFound, 1) counts the duplicate
UpdateIndex(w) ==
    /\ Alive
    /\ workers[w].pc = "index"
    /\ LET t == workers[w]
           exists == t.sum \in DOMAIN hashes
       IN  /\ duplicatesFound' = DuplicatesAfter(exists)
           /\ IF exists
              THEN /\ duplicatePaths' = duplicatePaths \cup { t.path }
                   /\ workers' = [workers EXCEPT ![w].pc = "dupBytes"]
                   /\ UNCHANGED << hashes, original, lock >>
              ELSE /\ hashes' = IndexPut(hashes, t.sum, t.path)
                   /\ original' = MapPut(original, t.sum, t.path)
                   /\ workers' = [workers EXCEPT ![w] = Idle]
                   /\ lock' = LockAfterUpdate(w, FALSE)
                   /\ UNCHANGED duplicatePaths
    /\ UNCHANGED << statted, panicking, unwound, statusCount, progresspc, shown, version, paths,
                    rawExtensions, hidden, remove, removeOnlyFromLast,
                    caseSensitive, mainpc, pathIdx, set, order,
                    removeOnlyFromLastRoot, extensions, walkers, queue,
                    removed, unableToRemove, filesProcessed,
                    filesUnableToProcess, bytesProcessed, duplicateBytes, fs,
                    output, submitted, removeCalls, hashedPaths, fname,
                    accepted >>

\* still under the lock: atomic.AddInt64(&duplicateBytes, n), then the path
\* is appended to its group (discovery mode) or marked for removal (deletion
\* mode), then lock.Unlock()
RecordDuplicate(w) ==
    /\ Alive
    /\ workers[w].pc = "dupBytes"
    /\ LET t == workers[w] IN
       /\ duplicateBytes' = duplicateBytes + t.n
       /\ hashes' = IndexPut(hashes, t.sum, t.path)
       /\ workers' = [workers EXCEPT ![w] =
                        IF remove THEN [pc |-> "remove", path |-> t.path]
                        ELSE Idle]
       /\ lock' = LockAfterUpdate(w, remove)
    /\ UNCHANGED << statted, panicking, unwound, statusCount, progresspc, shown, version, paths,
                    rawExtensions, hidden, remove, removeOnlyFromLast,
                    caseSensitive, mainpc, pathIdx, set, order,
                    removeOnlyFromLastRoot, extensions, walkers, queue,
                    removed, unableToRemove, filesProcessed,
                    filesUnableToProcess, bytesProcessed, duplicatesFound, fs,
                    output, submitted, removeCalls, original, hashedPaths,
                    duplicatePaths, fname, accepted >>

\* the test before the removal left out: every duplicate is removed
SpareNothing(path) == FALSE

\* the sequential version's test before the removal: the duplicate is left
\* alone when only the last root is to be cleaned and the path is not in it
SpareOutsideLast(path) ==
    /\ version = "sequential"
    /\ removeOnlyFromLast
    /\ RelPrefixed(removeOnlyFromLastRoot, path)

\* "Process any removal": os.Remove, which fails when the file is gone and
\* may fail otherwise
RemoveFile(w) ==
    /\ Alive
    /\ workers[w].pc = "remove"
    /\ LET path == workers[w].path IN
       IF SpareOutsideLast(path)
       THEN /\ workers' = [workers EXCEPT ![w] = Idle]
            /\ UNCHANGED << fs, removeCalls >>
       ELSE \E ok \in BOOLEAN :
              /\ ok => path \in fs
              /\ fs' = IF ok THEN fs \ { path } ELSE fs
              /\ removeCalls' = removeCalls \cup { path }
              /\ workers' = [workers EXCEPT ![w] =
                               [pc |-> "lockresult", path |-> path, ok |-> ok]]
    /\ UNCHANGED << statted, panicking, unwound, statusCount, progresspc, shown, version, paths, rawExtensions, hidden, remove,
                    removeOnlyFromLast, caseSensitive, mainpc, pathIdx, set,
                    order, removeOnlyFromLastRoot, extensions, walkers, queue,
                    lock, hashes, removed, unableToRemove, filesProcessed,
                    filesUnableToProcess, bytesProcessed, duplicatesFound,
                    duplicateBytes, output, submitted, original, hashedPaths, duplicatePaths, fname,
                    accepted >>

\* the outcome appended to removed or to unableToRemove under the lock
RecordOutcome(w) ==
    /\ Alive
    /\ workers[w].pc = "result"
    /\ IF workers[w].ok
       THEN /\ removed' = Append(removed, workers[w].path)
            /\ UNCHANGED unableToRemove
       ELSE /\ unableToRemove' = Append(unableToRemove, workers[w].path)
            /\ UNCHANGED removed
    /\ lock' = 0
    /\ workers' = [workers EXCEPT ![w] = Idle]
    /\ UNCHANGED << statted, panicking, unwound, statusCount, progresspc, shown, version, paths, rawExtensions, hidden, remove,
                    removeOnlyFromLast, caseSensitive, mainpc, pathIdx, set,
                    order, removeOnlyFromLastRoot, extensions, walkers, queue,
                    hashes, filesProcessed, filesUnableToProcess,
                    bytesProcessed, duplicatesFound, duplicateBytes, fs,
                    output, submitted, removeCalls, original, hashedPaths, duplicatePaths, fname,
                    accepted >>

-----------------------------------------------------------------------------
(* Completion and report *)

\* every walk has returned
WalksReturned == \A r \in DOMAIN walkers : walkers[r] = << >>

\* the counter of the WaitGroup is zero: wg.Done() has run in every walk
\* goroutine, on the return of its walk or while its panic unwinds
WaitGroupZero ==
    \A r \in DOMAIN walkers : walkers[r] = << >> \/ r \in unwound

\* no task is queued and no worker runs one
QueueDrained ==
    /\ queue = << >>
    /\ \A w \in 1..NumWorkers : workers[w].pc = "idle"

\* wg.Wait() returns (concurrent version)
WgWait ==
    /\ mainpc = "wait"
    /\ WaitGroupZero
    /\ mainpc' = "shutdown"
    /\ UNCHANGED << statted, panicking, unwound, statusCount, progresspc, shown, version, paths, rawExtensions, hidden, remove,
                    removeOnlyFromLast, caseSensitive, pathIdx, set, order,
                    removeOnlyFromLastRoot, extensions, walkers, queue,
                    workers, lock, hashes, removed, unableToRemove,
                    filesProcessed, filesUnableToProcess, bytesProcessed,
                    duplicatesFound, duplicateBytes, fs, output, submitted,
                    removeCalls, original, hashedPaths, duplicatePaths, fname, accepted >>

\* queue.Shutdown() returns once every submitted task has run (concurrent
\* version)
QueueShutdown ==
    /\ mainpc = "shutdown"
    /\ QueueDrained
    /\ mainpc' = "handoff"
    /\ UNCHANGED << statted, panicking, unwound, statusCount, progresspc, shown, version, paths, rawExtensions, hidden, remove,
                    removeOnlyFromLast, caseSensitive, pathIdx, set, order,
                    removeOnlyFromLastRoot, extensions, walkers, queue,
                    workers, lock, hashes, removed, unableToRemove,
                    filesProcessed, filesUnableToProcess, bytesProcessed,
                    duplicatesFound, duplicateBytes, fs, output, submitted,
                    removeCalls, original, hashedPaths, duplicatePaths, fname, accepted >>

\* the loop over the sorted roots ends (sequential version): every walk and
\* the last inline processFile call have returned
WalkLoopEnds ==
    /\ mainpc = "walking"
    /\ WalksReturned
    /\ workers[1].pc = "idle"
    /\ mainpc' = "handoff"
    /\ UNCHANGED << statted, panicking, unwound, statusCount, progresspc, shown, version, paths, rawExtensions, hidden, remove,
                    removeOnlyFromLast, caseSensitive, pathIdx, set, order,
                    removeOnlyFromLastRoot, extensions, walkers, queue,
                    workers, lock, hashes, removed, unableToRemove,
                    filesProcessed, filesUnableToProcess, bytesProcessed,
                    duplicatesFound, duplicateBytes, fs, output, submitted,
                    removeCalls, original, hashedPaths, duplicatePaths, fname, accepted >>

\* "done <- waitDone" in main() meets "case response := <-done" in
\* progress(): the channel is unbuffered, so send and receive are one step
SendDone ==
    /\ mainpc = "handoff"
    /\ progresspc = "select"
    /\ mainpc' = "await"
    /\ progresspc' = "respond"
    /\ UNCHANGED << statted, panicking, unwound, statusCount, shown, version, paths, rawExtensions, hidden, remove,
                    removeOnlyFromLast, caseSensitive, pathIdx, set, order,
                    removeOnlyFromLastRoot, extensions, walkers, queue,
                    workers, lock, hashes, removed, unableToRemove,
                    filesProcessed, filesUnableToProcess, bytesProcessed,
                    duplicatesFound, duplicateBytes, fs, output, submitted,
                    removeCalls, original, hashedPaths, duplicatePaths, fname,
                    accepted >>

\* "response <- true" in progress() meets "<-waitDone" in main(); progress()
\* returns
ProgressRespond ==
    /\ mainpc = "await"
    /\ progresspc = "respond"
    /\ mainpc' = "report"
    /\ progresspc' = "returned"
    /\ UNCHANGED << statted, panicking, unwound, statusCount, shown, version, paths, rawExtensions, hidden, remove,
                    removeOnlyFromLast, caseSensitive, pathIdx, set, order,
                    removeOnlyFromLastRoot, extensions, walkers, queue,
                    workers, lock, hashes, removed, unableToRemove,
                    filesProcessed, filesUnableToProcess, bytesProcessed,
                    duplicatesFound, duplicateBytes, fs, output, submitted,
                    removeCalls, original, hashedPaths, duplicatePaths, fname,
                    accepted >>

\* txt.NaturalLess(p, q, true) on two paths
PathLess(p, q) == NaturalLess(PathString(p), PathString(q))

\* x put at the end of the sorted list v and moved towards the front past
\* every element it is less than, stopping at the first it is not less than
RECURSIVE InsertSorted(_, _)
InsertSorted(v, x) ==
    IF v = << >> THEN << x >>
    ELSE IF PathLess(x, v[Len(v)])
    THEN InsertSorted(SubSeq(v, 1, Len(v) - 1), x) \o << v[Len(v)] >>
    ELSE v \o << x >>

\* sort.Slice(v, NaturalLess): for the short lists of the model (at most 12
\* elements) Go sorts by insertion, taking the elements from left to right,
\* so elements of which neither is less keep their order
RECURSIVE SortNatural(_)
SortNatural(v) ==
    IF v = << >> THEN << >>
    ELSE InsertSorted(SortNatural(SubSeq(v, 1, Len(v) - 1)), v[Len(v)])

\* summarizeList: the list sorted in place and printed under its title when
\* it is not empty
SummaryBlocks(title, list) ==
    IF Len(list) > 0
    THEN << [title |-> title, lines |-> SortNatural(list)] >>
    ELSE << >>

\* a group sorted in natural order whatever the version
ReportGroupSorted(v) == SortNatural(v)

\* a group as the discovery report takes it from the index: sorted in place
\* in the concurrent version, as recorded in the sequential one
ReportGroup(v) ==
    IF version = "concurrent" THEN SortNatural(v) ELSE v

\* the group is to be reported: it has more than one member
Reportable(v) == Len(v) > 1

\* the discovery report's first loop over the index in the order ord: dups
\* gets v[0] of every reportable group
RECURSIVE CollectDups(_, _)
CollectDups(h, ord) ==
    IF ord = << >> THEN << >>
    ELSE (IF Reportable(h[Head(ord)])
          THEN << ReportGroup(h[Head(ord)])[1] >> ELSE << >>)
             \o CollectDups(h, Tail(ord))

\* m[dup]: the rest of the group whose first element is dup
RestOf(h, dup) ==
    LET d == CHOOSE d \in DOMAIN h :
                 Reportable(h[d]) /\ ReportGroup(h[d])[1] = dup
    IN  Tail(ReportGroup(h[d]))

\* "Report": status(), then the lists or the groups
Report ==
    /\ mainpc = "report"
    /\ mainpc' = "done"
    /\ shown' = status
    /\ IF remove
       THEN /\ output' = SummaryBlocks("removed", removed)
                           \o SummaryBlocks("unable", unableToRemove)
            /\ removed' = SortNatural(removed)
            /\ unableToRemove' = SortNatural(unableToRemove)
            /\ hashes' = hashes
       ELSE \E ord \in Orderings(DOMAIN hashes) :
              LET found == CollectDups(hashes, ord)
                  dups == IF version = "concurrent"
                          THEN SortNatural(found) ELSE found
              IN  /\ output' =
                        IF Len(dups) > 0
                        THEN [i \in 1..Len(dups) |->
                                [title |-> "group",
                                 lines |-> << dups[i] >>
                                             \o RestOf(hashes, dups[i])]]
                        ELSE << [title |-> "none", lines |-> << >>] >>
                  /\ hashes' = [d \in DOMAIN hashes |->
                                  IF Reportable(hashes[d])
                                  THEN ReportGroup(hashes[d]) ELSE hashes[d]]
                  /\ UNCHANGED << removed, unableToRemove >>
    /\ UNCHANGED << statted, panicking, unwound, statusCount, progresspc, version, paths, rawExtensions, hidden, remove,
                    removeOnlyFromLast, caseSensitive, pathIdx, set, order,
                    removeOnlyFromLastRoot, extensions, walkers, queue,
                    workers, lock, filesProcessed, filesUnableToProcess,
                    bytesProcessed, duplicatesFound, duplicateBytes, fs,
                    submitted, removeCalls, original, hashedPaths, duplicatePaths,
           fname, accepted >>

-----------------------------------------------------------------------------
(* Initial states *)

\* sequences over S of length at most n
SeqsUpTo(S, n) == UNION { [1..k -> S] : k \in 0..n }

\* the state main() starts in, for a given command line
Start(v, ps, exts, h, rm, last, cs, nm) ==
    /\ fname = nm
    /\ version = v
    /\ paths = ps
    /\ rawExtensions = exts
    /\ hidden = h
    /\ remove = rm
    /\ removeOnlyFromLast = last
    /\ caseSensitive = cs
    /\ mainpc = "args"
    /\ progresspc = "none"
    /\ statusCount = 0
    /\ shown = [files |-> 0, bytes |-> 0, dups |-> 0, dupBytes |-> 0]
    /\ pathIdx = 1
    /\ set = << >>
    /\ order = 0
    /\ removeOnlyFromLastRoot = << >>
    /\ extensions = exts
    /\ walkers = << >>
    /\ statted = {}
    /\ panicking = {}
    /\ unwound = {}
    /\ queue = << >>
    /\ workers = [w \in 1..NumWorkers |-> Idle]
    /\ lock = 0
    /\ hashes = << >>
    /\ removed = << >>
    /\ unableToRemove = << >>
    /\ filesProcessed = 0
    /\ filesUnableToProcess = 0
    /\ bytesProcessed = 0
    /\ duplicatesFound = 0
    /\ duplicateBytes = 0
    /\ fs = Files
    /\ output = << >>
    /\ submitted = {}
    /\ removeCalls = {}
    /\ original = << >>
    /\ hashedPaths = {}
    /\ duplicatePaths = {}
    /\ accepted = FALSE

Versions == { "concurrent", "sequential" }

-----------------------------------------------------------------------------
(* Specification of the root normalisation alone, over every short command
   line of roots *)

RootChoices == { pA, pB, pD, pC, pL, pM }

InitRoots ==
    \E v \in Versions, ps \in SeqsUpTo(RootChoices, MaxRoots) :
        Start(v, ps, << >>, FALSE, FALSE, FALSE, FALSE, << >>)

NextRoots == UseWorkingDir \/ PrunePath

SpecRoots == InitRoots /\ [][NextRoots]_vars

\* the pruning loop has run to its end
PruneFinished == mainpc = "prune" /\ pathIdx > Len(paths)

\* the canonical forms of the paths on the command line
InputRoots == { Realpath(paths[i]) : i \in 1..Len(paths) }

\* C4 (as claimed): after the pruning loop no surviving root is an ancestor
\* of another surviving root, and of any two input paths that are ancestor
\* and descendant the descendant does not survive and the ancestor does
\* (unless a still broader input path replaced it)
C4_BroaderRootWins ==
    PruneFinished =>
        /\ \A r, s \in DOMAIN set : ~IsAncestor(r, s)
        /\ \A a, d \in InputRoots :
              IsAncestor(a, d) =>
                  /\ d \notin DOMAIN set
                  /\ \/ a \in DOMAIN set
                     \/ \E b \in InputRoots : IsAncestor(b, a)

-----------------------------------------------------------------------------
(* Specification of the extension filter alone, over short --extension
   lists and a set of file names *)

sTxt == Str3("t", "x", "t")
sDotTxt == << ".", "t", "x", "t" >>
sDotTXT == << ".", "T", "X", "T" >>
sMd == Str2("M", "d")
sDot == Str1(".")
sEmpty == << >>

ExtChoices == { sTxt, sDotTxt, sDotTXT, sMd, sDot, sEmpty }

NameChoices ==
    { << "A", ".", "T", "X", "T" >>,        \* A.TXT
      << "a", ".", "m", "d" >>,             \* a.md
      << "a", ".", "t", "x", "t" >>,        \* a.txt
      << "a", "t", "x", "t" >>,             \* atxt
      sDotTxt,                              \* .txt
      sTxt,                                 \* txt
      << "x", ".", "M", "d" >>,             \* x.Md
      << "y" >> }

InitExt ==
    \E v \in Versions, exts \in SeqsUpTo(ExtChoices, MaxExt),
       cs \in BOOLEAN, nm \in NameChoices :
        Start(v, << >>, exts, FALSE, FALSE, FALSE, cs, nm)

NextExt ==
    UseWorkingDir \/ PrunePath \/ StartProgress \/ FormatExtensions
        \/ ProbeName

SpecExt == InitExt /\ [][NextExt]_vars

\* a configured suffix as the claim describes it: lower-cased unless
\* case-sensitive, with a leading "." when it had none
ConfiguredSuffix(e) ==
    LET l == IF caseSensitive THEN e
             ELSE [i \in 1..Len(e) |-> LowerChar(e[i])]
    IN  IF l # << >> /\ l[1] = "." THEN l ELSE << "." >> \o l

\* the configured suffixes, those that reduce to the bare "." dropped
ConfiguredSuffixes ==
    { ConfiguredSuffix(rawExtensions[i]) : i \in 1..Len(rawExtensions) }
        \ { << "." >> }

\* s ends with t: s is some string followed by t
EndsWith(s, t) == \E k \in 0..Len(s) : s = SubSeq(s, 1, k) \o t

\* C9: isFileNameAcceptable(name) is true for every name when no suffix is
\* configured; otherwise it is true exactly when the name (lower-cased
\* unless case-sensitive) ends with a configured suffix. With the allow-list
\* {".txt"} and case-insensitive mode A.TXT is accepted and a.md rejected.
C9_ExtensionFilter ==
    mainpc = "probed" =>
        LET n == IF caseSensitive THEN fname
                 ELSE [i \in 1..Len(fname) |-> LowerChar(fname[i])]
        IN  /\ accepted = ( \/ ConfiguredSuffixes = {}
                            \/ \E t \in ConfiguredSuffixes : EndsWith(n, t) )
            /\ ( /\ ConfiguredSuffixes = { sDotTxt }
                 /\ ~caseSensitive ) =>
                   /\ fname = << "A", ".", "T", "X", "T" >> => accepted
                   /\ fname = << "a", ".", "m", "d" >> => ~accepted

\* C9 witness: the allow-list is {".txt"}, case-insensitive, configured as
\* "TXT" style input, and A.TXT has been accepted
C9_Witness ==
    /\ mainpc = "probed"
    /\ rawExtensions = << sDotTXT >>
    /\ ~caseSensitive
    /\ fname = << "A", ".", "T", "X", "T" >>
    /\ accepted

-----------------------------------------------------------------------------
(* Specification of a whole run *)

RunRootLists ==
    { << >>, << pA, pC >>, << pC, pA >>, << pA, pB >>, << pD >> }

\* the command lines of the runs: --last exists in the sequential version
\* only, and the two unrelated roots are given in both orders where their
\* order is used, which is in the sequential version (the concurrent version
\* starts one goroutine per root and never reads the order)
Init ==
    \E v \in Versions, ps \in RunRootLists, h \in BOOLEAN, rm \in BOOLEAN,
       last \in BOOLEAN :
        /\ last => v = "sequential"
        /\ ps = << pC, pA >> => v = "sequential"
        /\ Start(v, ps, << >>, h, rm, last, FALSE, << >>)

Next ==
    \/ UseWorkingDir
    \/ PrunePath
    \/ StartProgress
    \/ ProgressTick
    \/ StatusLoadBytes
    \/ StatusLoadDups
    \/ StatusLoadDupBytes
    \/ FormatExtensions
    \/ SpawnWalkers
    \/ ListRoots
    \/ \E r \in DOMAIN walkers : WalkLstat(r)
    \/ \E r \in DOMAIN walkers : WalkStep(r)
    \/ \E r \in DOMAIN walkers : WalkUnwind(r)
    \/ PanicExit
    \/ \E w \in 1..NumWorkers :
         \/ StartTask(w)
         \/ OpenFile(w)
         \/ HashAndCount(w)
         \/ CountBytes(w)
         \/ Lock(w)
         \/ UpdateIndex(w)
         \/ RecordDuplicate(w)
         \/ RemoveFile(w)
         \/ RecordOutcome(w)
    \/ WgWait
    \/ QueueShutdown
    \/ WalkLoopEnds
    \/ SendDone
    \/ ProgressRespond
    \/ Report

Spec == Init /\ [][Next]_vars

-----------------------------------------------------------------------------
(* Properties of a whole run *)

\* the elements of a list
Range(v) == { v[i] : i \in 1..Len(v) }

\* how often x occurs in the list v
Count(v, x) == Cardinality({ i \in 1..Len(v) : v[i] = x })

\* the run has ended with its report printed
Finished == mainpc = "done"

\* C1 (as claimed): in deletion mode the path first recorded for a digest is
\* never handed to os.Remove and is in neither outcome list
C1_FirstCopyNeverRemoved ==
    remove =>
        \A d \in DOMAIN original :
            /\ original[d] \notin removeCalls
            /\ original[d] \notin Range(removed)
            /\ original[d] \notin Range(unableToRemove)

\* C2 (as claimed, for the runs without the last-root restriction): in
\* deletion mode, at the end of the run, every path found to be a duplicate
\* is in exactly one of removed and unableToRemove, never in both and never
\* in neither
C2_ExactlyOneOutcome ==
    (Finished /\ remove /\ ~removeOnlyFromLast) =>
        \A p \in duplicatePaths :
            /\ p \in Range(removed) \/ p \in Range(unableToRemove)
            /\ ~(p \in Range(removed) /\ p \in Range(unableToRemove))

\* two paths are in the same group of the index
SameGroup(p, q) ==
    \E d \in DOMAIN hashes : p \in Range(hashes[d]) /\ q \in Range(hashes[d])

\* C3: in discovery mode, once every file has been recorded, two hashed
\* paths are in the same group of the index exactly when their contents are
\* equal (so every hashed path is in a group), and the index holds hashed
\* paths only
C3_GroupsAreContents ==
    (mainpc \in { "report", "done" } /\ ~remove) =>
        /\ \A p, q \in hashedPaths :
              SameGroup(p, q) <=> Content(p) = Content(q)
        /\ \A d \in DOMAIN hashes : Range(hashes[d]) \subseteq hashedPaths

\* C3 witness: a discovery run has ended with three files of one content in
\* one group and a file of another content hashed as well
C3_Witness ==
    /\ Finished
    /\ ~remove
    /\ hashedPaths = { pY, pX, pK, pW }
    /\ SameGroup(pY, pW)
    /\ SameGroup(pX, pW)

\* C5: with deletion mode and the last-root restriction both on, every path
\* handed to os.Remove, every path gone from storage and every path in
\* removed or unableToRemove lies within the designated last root
C5_OnlyLastRootTouched ==
    (remove /\ removeOnlyFromLast) =>
        \A p \in removeCalls \cup (Files \ fs) \cup Range(removed)
                   \cup Range(unableToRemove) :
            Within(removeOnlyFromLastRoot, p)

\* C5 witness: a restricted deletion run has ended in which a duplicate
\* outside the last root was found and left alone, and a duplicate inside
\* the last root was removed
C5_Witness ==
    /\ Finished
    /\ remove
    /\ removeOnlyFromLast
    /\ \E p \in duplicatePaths : ~Within(removeOnlyFromLastRoot, p)
    /\ \E p \in Range(removed) : Within(removeOnlyFromLastRoot, p)

\* a name that starts with "."
DotName(name) == name # << >> /\ name[1] = "."

\* C6 (as claimed): with hidden processing off, no submitted path has a base
\* name or the name of any ancestor directory starting with "."
C6_NoHiddenComponent ==
    ~hidden =>
        \A p \in submitted : \A k \in 1..Len(p) : ~DotName(p[k])

\* C6 (amended): with hidden processing off, every submitted path lies
\* under a surviving root such that neither the root's own name, nor any
\* directory between the root and the path, nor the path's base name starts
\* with "."; the directories above the root are not examined
C6_NoHiddenBelowRoot ==
    ~hidden =>
        \A p \in submitted :
            \E r \in DOMAIN set :
                /\ Within(r, p)
                /\ \A k \in Len(r)..Len(p) : k >= 1 => ~DotName(p[k])

\* C6 witness: a run without hidden processing has ended, the walk of /a and
\* /c submitted the two visible files and neither the hidden file nor the
\* file under the hidden directory
C6_Witness ==
    /\ Finished
    /\ ~hidden
    /\ DOMAIN set = { pA, pC }
    /\ submitted = { pX, pW }

\* C7 (as claimed, for the runs in which no open, read or removal failed):
\* after a completed concurrent deletion run, for every content found among
\* the hashed files exactly one of the scanned copies of it is still in
\* storage
C7_SingleCopyRemains ==
    (Finished /\ remove /\ version = "concurrent"
              /\ filesUnableToProcess = 0 /\ unableToRemove = << >>) =>
        \A p \in hashedPaths :
            Cardinality({ q \in submitted \cap fs :
                            Content(q) = Content(p) }) = 1

\* the block of the report that starts with the path first
BlocksStarting(first) ==
    { i \in 1..Len(output) :
        output[i].title = "group" /\ output[i].lines[1] = first }

\* the list w holds the elements of the list v, each as often
SameMembers(v, w) ==
    /\ Len(v) = Len(w)
    /\ \A x \in Range(v) \cup Range(w) : Count(v, x) = Count(w, x)

\* C8 (as claimed): the discovery report prints, for every group of more
\* than one member, the first-seen path first and then the other members,
\* and prints no group of a single member
C8_OriginalPrintedFirst ==
    (Finished /\ ~remove) =>
        /\ \A d \in DOMAIN hashes :
              Len(hashes[d]) > 1 =>
                  \E i \in BlocksStarting(original[d]) :
                      SameMembers(output[i].lines, hashes[d])
        /\ \A i \in 1..Len(output) :
              output[i].title = "group" => Len(output[i].lines) > 1

\* the list is in natural order
NaturallySorted(v) ==
    \A i, j \in 1..Len(v) : i < j => ~PathLess(v[j], v[i])

\* C8 (amended): the discovery report prints exactly the groups of more than
\* one member, each once: in the sequential version as recorded, the
\* first-seen path first; in the concurrent version in natural order, the
\* naturally least member first
C8_GroupsPrinted ==
    (Finished /\ ~remove) =>
        /\ \A d \in DOMAIN hashes :
              Len(hashes[d]) > 1 =>
                  \E i \in 1..Len(output) :
                      /\ output[i].title = "group"
                      /\ SameMembers(output[i].lines, hashes[d])
                      /\ IF version = "sequential"
                         THEN /\ output[i].lines = hashes[d]
                              /\ output[i].lines[1] = original[d]
                         ELSE NaturallySorted(output[i].lines)
        /\ \A i \in 1..Len(output) :
              output[i].title = "group" =>
                  /\ Len(output[i].lines) > 1
                  /\ \E d \in DOMAIN hashes :
                        SameMembers(output[i].lines, hashes[d])
        /\ Cardinality({ i \in 1..Len(output) : output[i].title = "group" })
              = Cardinality({ d \in DOMAIN hashes : Len(hashes[d]) > 1 })

\* C8 witness: a concurrent discovery run has ended whose report starts a
\* group with a path that was not the first seen
C8_Witness ==
    /\ Finished
    /\ ~remove
    /\ version = "concurrent"
    /\ \E d \in DOMAIN hashes :
          /\ Len(hashes[d]) > 1
          /\ BlocksStarting(original[d]) = {}

\* C10 (as claimed): while the report is produced and after it, every walk
\* has returned, no task is queued and no worker runs processFile
C10_ReportAfterAllWork ==
    mainpc \in { "report", "done" } =>
        /\ \A r \in DOMAIN walkers : walkers[r] = << >>
        /\ queue = << >>
        /\ \A w \in 1..NumWorkers : workers[w].pc = "idle"

-----------------------------------------------------------------------------
(* Locking in processFile *)

\* the worker is between lock.Lock() and lock.Unlock()
InCriticalSection(w) == workers[w].pc \in { "index", "dupBytes", "result" }

\* C11: a worker is inside a critical section of processFile exactly when it
\* is the holder of the lock, so at most one worker is inside at any time;
\* and while hashing goes on, the index and the two outcome lists change only
\* in a step of the lock's holder, which releases the lock in that step
C11_LockDiscipline ==
    /\ [](\A w \in 1..NumWorkers : InCriticalSection(w) <=> lock = w)
    /\ [][(Alive /\ << hashes, removed, unableToRemove >>
                       # << hashes', removed', unableToRemove' >>)
            => /\ lock \in 1..NumWorkers
               /\ InCriticalSection(lock)
               /\ workers'[lock].pc \notin { "index", "dupBytes", "result" }
               /\ lock' = 0
               /\ \A v \in 1..NumWorkers \ { lock } :
                     workers'[v] = workers[v]]_vars

\* C11 witness: two workers have hashed files of the same content that the
\* index does not hold yet; one is inside the critical section, about to
\* check and insert, the other waits for the lock
C11_Witness ==
    \E w, v \in 1..NumWorkers :
        /\ w # v
        /\ lock = w
        /\ workers[w].pc = "index"
        /\ workers[v].pc = "lock"
        /\ workers[v].sum = workers[w].sum
        /\ workers[w].sum \notin DOMAIN hashes

\* C12: until the report (main() has not returned and nothing of the report
\* is printed), the first element of every group is the path of
\* the first index update made for the digest; and in every step of the
\* hashing phase a group keeps its first element and either stays as it is
\* or gets the path of the worker holding the lock appended at its end, and
\* a new group holds the path of the worker holding the lock
C12_FirstStaysFirst ==
    /\ []((~Finished /\ output = << >>) =>
            \A d \in DOMAIN hashes :
                /\ d \in DOMAIN original
                /\ hashes[d][1] = original[d])
    /\ [][Alive =>
            /\ \A d \in DOMAIN hashes :
                  /\ d \in DOMAIN hashes'
                  /\ hashes'[d][1] = hashes[d][1]
                  /\ \/ hashes'[d] = hashes[d]
                     \/ /\ lock \in 1..NumWorkers
                        /\ InCriticalSection(lock)
                        /\ workers[lock].sum = d
                        /\ hashes'[d] = Append(hashes[d], workers[lock].path)
            /\ \A d \in DOMAIN hashes' \ DOMAIN hashes :
                  /\ lock \in 1..NumWorkers
                  /\ workers[lock].pc = "index"
                  /\ workers[lock].sum = d
                  /\ hashes'[d] = << workers[lock].path >>]_vars

\* C12 witness: while the concurrent version is hashing, a group holds two
\* paths in the order their updates took the lock, which is not the order of
\* their names, and a third worker-held path of that digest is about to be
\* appended
C12_Witness ==
    /\ Alive
    /\ version = "concurrent"
    /\ \E d \in DOMAIN hashes :
          /\ Len(hashes[d]) >= 2
          /\ PathLess(hashes[d][2], hashes[d][1])
          /\ \E w \in 1..NumWorkers :
                /\ workers[w].pc = "index"
                /\ workers[w].sum = d

\* C13: a worker that is about to remove a file, or has just tried to, does
\* not hold the lock; a step that removes a file is the step of such a worker
\* and changes neither the lock, the index nor the outcome lists; a step
\* that changes the index removes no file; and a step of the hashing phase
\* that changes an outcome list is taken by the lock's holder after its
\* removal and appends its path to exactly one of the two lists
C13_RemovalOutsideLock ==
    /\ [](\A w \in 1..NumWorkers :
             workers[w].pc \in { "remove", "lockresult" } => lock # w)
    /\ [][fs' # fs =>
            /\ UNCHANGED << lock, hashes, removed, unableToRemove >>
            /\ \E w \in 1..NumWorkers :
                  /\ workers[w].pc = "remove"
                  /\ lock # w
                  /\ workers'[w].pc = "lockresult"
                  /\ fs' = fs \ { workers[w].path }]_vars
    /\ [][hashes' # hashes => fs' = fs]_vars
    /\ [][(Alive /\ << removed, unableToRemove >>
                       # << removed', unableToRemove' >>) =>
            /\ lock \in 1..NumWorkers
            /\ workers[lock].pc = "result"
            /\ UNCHANGED << fs, hashes >>
            /\ \/ /\ removed' = Append(removed, workers[lock].path)
                  /\ unableToRemove' = unableToRemove
               \/ /\ unableToRemove' = Append(unableToRemove,
                                              workers[lock].path)
                  /\ removed' = removed]_vars

\* C13 witness: a worker has removed its duplicate from storage and waits to
\* take the lock again, which another worker holds for its index update
C13_Witness ==
    \E w, v \in 1..NumWorkers :
        /\ w # v
        /\ workers[w].pc = "lockresult"
        /\ workers[w].ok
        /\ workers[w].path \notin fs
        /\ lock = v
        /\ workers[v].pc = "index"

-----------------------------------------------------------------------------
(* Errors *)

\* C14: a step that counts a file as unprocessable (os.Open or io.Copy
\* failed) adds exactly 1 to that counter, is the step of a worker that was
\* opening or reading its file and is idle afterwards, and changes nothing
\* else:
\* the other counters, the index, the outcome lists, the storage, the lock,
\* the queue, the walks, the other workers and main() stay as they are
C14_FailureCountsOnce ==
    [][filesUnableToProcess' # filesUnableToProcess =>
         /\ filesUnableToProcess' = filesUnableToProcess + 1
         /\ UNCHANGED << filesProcessed, bytesProcessed, duplicatesFound,
                         duplicateBytes, hashes, removed, unableToRemove,
                         fs, removeCalls, lock, queue, walkers, mainpc >>
         /\ \E w \in 1..NumWorkers :
               /\ workers[w].pc \in { "open", "copy" }
               /\ workers'[w] = Idle
               /\ \A v \in 1..NumWorkers \ { w } :
                     workers'[v] = workers[v]]_vars

\* C14 witness: a run has ended with its report in which a file could not be
\* read and other files were hashed and found to be duplicates
C14_Witness ==
    /\ Finished
    /\ filesUnableToProcess >= 1
    /\ filesProcessed >= 2
    /\ duplicatesFound >= 1

\* C15 (as claimed): a traversal error reported for an entry, the case of no
\* file info included, never aborts the run: the process is never ended by
\* a panic of the walker
C15_TraversalErrorNotFatal == mainpc # "panic"

-----------------------------------------------------------------------------
(* Order of the roots, sequential version *)

\* the path is the root or lies below it
UnderRoot(r, p) == p = r \/ IsAncestor(r, p)

\* C16 (as claimed): in the sequential version, of two hashed files of the
\* same content under two different surviving roots, the one under the root
\* that comes later on the command line is not the first element of the
\* group
C16_EarlierRootKeepsOriginal ==
    version = "sequential" =>
        \A r1, r2 \in DOMAIN walkers :
            \A p, q \in hashedPaths :
                (/\ set[r1] < set[r2]
                 /\ UnderRoot(r1, p)
                 /\ UnderRoot(r2, q)
                 /\ p # q
                 /\ Content(p) = Content(q)
                 /\ Sha256(Content(q)) \in DOMAIN original)
                    => original[Sha256(Content(q))] # q

\* C17: in the sequential version, after every iteration of the pruning loop
\* the designated last root is the canonical form of the path just handled,
\* so after the loop it is the canonical form of the last path on the command
\* line, whether that path was added to the surviving roots, was there
\* already, was discarded or replaced earlier roots
C17_LastRootIsLastPath ==
    (version = "sequential" /\ mainpc = "prune" /\ pathIdx > 1) =>
        removeOnlyFromLastRoot = Realpath(paths[pathIdx - 1])

\* C17 witness: the pruning loop has ended on a command line of three paths
\* whose last path was discarded because an earlier root is its ancestor; it
\* is the designated last root although it is no surviving root
C17_Witness ==
    /\ version = "sequential"
    /\ PruneFinished
    /\ Len(paths) = 3
    /\ removeOnlyFromLastRoot \notin DOMAIN set
    /\ \E r \in DOMAIN set : IsAncestor(r, removeOnlyFromLastRoot)
    /\ removeOnlyFromLastRoot = Realpath(paths[3])

-----------------------------------------------------------------------------
(* Counters *)

\* the sum over the groups in D of (group length - 1)
RECURSIVE ExtraMembers(_)
ExtraMembers(D) ==
    IF D = {} THEN 0
    ELSE LET d == CHOOSE x \in D : TRUE
         IN  (Len(hashes[d]) - 1) + ExtraMembers(D \ { d })

\* main() is past the walks and the queue: every walk has returned or
\* panicked and every processFile call is over
WorkCompleted == mainpc \in { "handoff", "await", "report", "done" }

\* C18: in every state filesProcessed is at least the number of digests in
\* the index plus duplicatesFound, and equal to it once all work is over;
\* in discovery mode, whenever the lock is free, duplicatesFound is the sum
\* over the groups of (length - 1); in deletion mode without the last-root
\* restriction, once all work is over, the lengths of removed and
\* unableToRemove add up to duplicatesFound; and no step decreases a counter
C18_CountersConsistent ==
    /\ [](filesProcessed >= Cardinality(DOMAIN hashes) + duplicatesFound)
    /\ [](WorkCompleted =>
            filesProcessed = Cardinality(DOMAIN hashes) + duplicatesFound)
    /\ []((lock = 0 /\ ~remove) =>
            duplicatesFound = ExtraMembers(DOMAIN hashes))
    /\ []((WorkCompleted /\ remove /\ ~removeOnlyFromLast) =>
            Len(removed) + Len(unableToRemove) = duplicatesFound)
    /\ [][/\ filesProcessed' >= filesProcessed
          /\ filesUnableToProcess' >= filesUnableToProcess
          /\ bytesProcessed' >= bytesProcessed
          /\ duplicatesFound' >= duplicatesFound
          /\ duplicateBytes' >= duplicateBytes]_vars

\* C18 witness: a deletion run without the restriction has finished its work
\* with one removal done and one failed, and two duplicates counted
C18_Witness ==
    /\ WorkCompleted
    /\ remove
    /\ ~removeOnlyFromLast
    /\ Len(removed) = 1
    /\ Len(unableToRemove) = 1
    /\ duplicatesFound = 2
    /\ filesProcessed = 3

-----------------------------------------------------------------------------
(* Termination *)

\* a step of the program other than the timer of progress() firing
Advance ==
    \/ UseWorkingDir
    \/ PrunePath
    \/ StartProgress
    \/ StatusLoadBytes
    \/ StatusLoadDups
    \/ StatusLoadDupBytes
    \/ FormatExtensions
    \/ SpawnWalkers
    \/ ListRoots
    \/ \E r \in DOMAIN walkers : WalkLstat(r)
    \/ \E r \in DOMAIN walkers : WalkStep(r)
    \/ \E r \in DOMAIN walkers : WalkUnwind(r)
    \/ PanicExit
    \/ \E w \in 1..NumWorkers :
         \/ StartTask(w)
         \/ OpenFile(w)
         \/ HashAndCount(w)
         \/ CountBytes(w)
         \/ Lock(w)
         \/ UpdateIndex(w)
         \/ RecordDuplicate(w)
         \/ RemoveFile(w)
         \/ RecordOutcome(w)
    \/ WgWait
    \/ QueueShutdown
    \/ WalkLoopEnds
    \/ SendDone
    \/ ProgressRespond
    \/ Report

\* C19 (as claimed): a run that got past its start-up (it did not exit for
\* want of a working directory or of a real path) never stops short of its
\* report: in every state either the report has been printed or some
\* goroutine can take a step other than the progress timer firing
C19_NoStopBeforeReport == mainpc \in { "done", "exit" } \/ ENABLED Advance

====
